---- MODULE Spec2Model ----
(***************************************************************************)
(* E-commerce backend (src/main.py, src/schemas.py): signup/login, the     *)
(* JWT token service, the access-control guard of the protected routes,    *)
(* product CRUD, order placement, admin stats and demo-data seeding, over  *)
(* a document store holding the collections "user", "product", "order".    *)
(*                                                                         *)
(* Time is counted in ticks; TicksPerSecond ticks make one second, so that *)
(* datetime.now() can fall between two whole seconds while the "exp" claim *)
(* of a token is a whole number of epoch seconds.                          *)
(* Strings that stand for ObjectIds are sequences of digits: <<n>> is the  *)
(* string form of ObjectId n and <<>> is the empty string.                 *)
(* Floats with one decimal (rating) are kept in tenths.                    *)
(***************************************************************************)
EXTENDS Integers, Sequences, FiniteSets, TLC

\* ------------------------------------------------------------ bounds
\* clock resolution: ticks per second
TicksPerSecond == 2
\* issue instants 0..MaxSkew ticks after the epoch are explored
MaxSkew == 1
\* signups accepted while the user collection holds fewer records than this
MaxUsers == 2
\* tokens remembered by clients
MaxTokens == 1
\* orders stored
MaxOrders == 1
\* POST /products is accepted while the collection holds fewer than
\* Len(DEMO_PRODUCTS) + MaxExtraProducts products
MaxExtraProducts == 1

\* ------------------------------------------------------------ program constants
JWT_SECRET == "devsecret"
JWT_ALGO == "HS256"
TOKEN_DAYS == 7
SecondsPerDay == 24 * 60 * 60
\* timedelta(days=7), in ticks
TokenLifetime == TOKEN_DAYS * SecondsPerDay * TicksPerSecond

DEMO_PRODUCTS ==
    <<
      [ name |-> "Pixel 7A", brand |-> "Google",
        description |-> "Powerful camera and smooth Android experience.",
        price |-> 34999, category |-> "Mobiles", rating |-> 44,
        images |-> << "https://images.unsplash.com/photo-1511707171634-5f897ff02aa9" >>,
        specs |-> [storage |-> "128GB", ram |-> "8GB"], stock |-> 25 ],
      [ name |-> "iPhone 14", brand |-> "Apple",
        description |-> "A15 Bionic with stunning display.",
        price |-> 69999, category |-> "Mobiles", rating |-> 46,
        images |-> << "https://images.unsplash.com/photo-1603899123335-4a9d94dfbd89" >>,
        specs |-> [storage |-> "128GB", ram |-> "6GB"], stock |-> 15 ],
      [ name |-> "ThinkPad X1", brand |-> "Lenovo",
        description |-> "Business-class laptop with legendary keyboard.",
        price |-> 119999, category |-> "Laptops", rating |-> 45,
        images |-> << "https://images.unsplash.com/photo-1517336714731-489689fd1ca8" >>,
        specs |-> [cpu |-> "i7", ram |-> "16GB", storage |-> "512GB SSD"], stock |-> 10 ],
      [ name |-> "MacBook Air M2", brand |-> "Apple",
        description |-> "Ultra portable with M2 performance.",
        price |-> 124999, category |-> "Laptops", rating |-> 48,
        images |-> << "https://images.unsplash.com/photo-1517336714731-489689fd1ca8" >>,
        specs |-> [ram |-> "8GB", storage |-> "256GB SSD"], stock |-> 12 ],
      [ name |-> "Noise Cancelling Headphones", brand |-> "Sony",
        description |-> "Immerse in music with ANC.",
        price |-> 19999, category |-> "Accessories", rating |-> 47,
        images |-> << "https://images.unsplash.com/photo-1518443248587-30bdc8f94f04" >>,
        specs |-> [battery |-> "30h"], stock |-> 40 ],
      [ name |-> "Mechanical Keyboard", brand |-> "Keychron",
        description |-> "Hot-swappable RGB keyboard.",
        price |-> 7999, category |-> "Accessories", rating |-> 43,
        images |-> << "https://images.unsplash.com/photo-1516382799247-87df95d790b5" >>,
        specs |-> [switches |-> "Gateron"], stock |-> 30 ],
      [ name |-> "Casual Sneakers", brand |-> "Nike",
        description |-> "Comfortable everyday wear.",
        price |-> 4999, category |-> "Fashion", rating |-> 42,
        images |-> << "https://images.unsplash.com/photo-1525966222134-fcfa99b8ae77" >>,
        specs |-> [size |-> "7-11"], stock |-> 50 ],
      [ name |-> "Smartwatch", brand |-> "Amazfit",
        description |-> "Track fitness and notifications.",
        price |-> 6999, category |-> "Accessories", rating |-> 41,
        images |-> << "https://images.unsplash.com/photo-1512086734732-172b66a17c72" >>,
        specs |-> [battery |-> "10 days"], stock |-> 35 ]
    >>

\* ------------------------------------------------------------ input domains
ADMIN_EMAIL == "admin@shop.com"
ADMIN_PASSWORD == "admin123"
Emails == {"a@b.com", ADMIN_EMAIL}
Passwords == {ADMIN_PASSWORD, "hunter2"}
\* one newcomer, and one who takes the address and password of the demo admin
SignupBodies ==
    { [name |-> "Ann", email |-> "a@b.com", password |-> "hunter2"],
      [name |-> "Eve", email |-> ADMIN_EMAIL, password |-> ADMIN_PASSWORD] }
LoginBodies == [email : Emails, password : Passwords]

\* the instants the wall clock is observed at: just after the epoch, and
\* around one token lifetime later
Instants ==
    (0 .. MaxSkew)
      \cup {TokenLifetime + k : k \in 0 .. (MaxSkew + TicksPerSecond)}

\* Optional[T]: None is the empty sequence, a supplied value v is <<v>>
None == << >>
Some(v) == << v >>

\* ProductUpdateBody: nine optional fields, None when the caller omits them
ProductFields ==
    {"name", "brand", "description", "price", "category", "rating",
     "images", "specs", "stock"}
EmptyUpdate == [k \in ProductFields |-> None]
UpdateBodies ==
    { EmptyUpdate,
      [EmptyUpdate EXCEPT !["price"] = Some(100)],
      [EmptyUpdate EXCEPT !["name"] = Some("Renamed"), !["stock"] = Some(0)] }

\* ProductCreateBody with the schema defaults of rating, images, specs, stock
CreateBodies ==
    { [ name |-> "Desk Lamp", brand |-> "Acme", description |-> "A lamp.",
        price |-> 1999, category |-> "Accessories", rating |-> 40,
        images |-> << >>, specs |-> << >>, stock |-> 10 ] }

\* ------------------------------------------------------------ state
VARIABLES
    users,      \* db["user"]: documents in insertion order
    products,   \* db["product"]
    orders,     \* db["order"]
    nextId,     \* the next ObjectId of each collection
    now,        \* the wall clock, in ticks
    issued,     \* tokens handed to clients, each with the instant of issue
    placedBy,   \* history: order id -> the identity that created the order
    signedUp,   \* history: the (email, password) pairs of successful signups
    resp,       \* the response on its way to the client, or Idle
    procs       \* the requests being handled step by step (concurrent handling)

vars == <<users, products, orders, nextId, now, issued, placedBy, signedUp, resp, procs>>

\* ------------------------------------------------------------ utils
Min(S) == CHOOSE x \in S : \A y \in S : x <= y

\* ObjectId(s) and str(oid)
ObjectId(s) == [oid |-> s[1]]
str(oid) == << oid.oid >>

\* a filter document {field: value, ...}; {} matches every document
Matches(doc, filt) == \A k \in DOMAIN filt : doc[k] = filt[k]
All == << >>

\* collection.find_one(filter): the first matching document, or None
NotFound == [found |-> FALSE]
find_one(coll, filt) ==
    LET hits == {i \in 1 .. Len(coll) : Matches(coll[i], filt)}
    IN  IF hits = {} THEN NotFound
        ELSE [found |-> TRUE, doc |-> coll[Min(hits)]]

count_documents(coll, filt) ==
    Cardinality({i \in 1 .. Len(coll) : Matches(coll[i], filt)})

\* database.create_document: insert the document under a fresh ObjectId
\* and return the string form of the id
insert_one(coll, doc, n) == Append(coll, [id |-> [oid |-> n]] @@ doc)

\* {"$set": update} applied to one document
SetFields(doc, update) ==
    [k \in DOMAIN doc \cup DOMAIN update |->
        IF k \in DOMAIN update THEN update[k] ELSE doc[k]]

\* serialize_doc: the ObjectId under "_id" becomes its string form under "id"
\* (stored documents keep the ObjectId in the field id, serialized ones the string)
serialize_doc(doc) == [doc EXCEPT !.id = str(doc.id)]

hash_password(password) == << "sha256", password >>

\* jwt.encode: a datetime "exp" is stored as whole epoch seconds; the
\* signature covers the payload under the secret and the algorithm
Sign(payload, key) == << JWT_ALGO, key, payload >>
\* the lifetime forgotten: the token expires the second it is issued
Mutant_create_token(payload, t) ==
    LET to_encode == payload @@ [exp |-> t \div TicksPerSecond]
    IN  [payload |-> to_encode, sig |-> Sign(to_encode, JWT_SECRET)]

create_token(payload, t) ==
    LET exp == (t + TokenLifetime) \div TicksPerSecond
        to_encode == payload @@ [exp |-> exp]
    IN  [payload |-> to_encode, sig |-> Sign(to_encode, JWT_SECRET)]

Fail(status, detail) == [ok |-> FALSE, status |-> status, detail |-> detail]

\* the expiry never checked
Mutant_decode_token(token, t) ==
    IF token.sig # Sign(token.payload, JWT_SECRET)
    THEN Fail(401, "Invalid token")
    ELSE [ok |-> TRUE, payload |-> token.payload]

\* jwt.decode: the signature first, then the expiry (exp <= now is expired)
decode_token(token, t) ==
    IF token.sig # Sign(token.payload, JWT_SECRET)
    THEN Fail(401, "Invalid token")
    ELSE IF token.payload.exp * TicksPerSecond <= t
    THEN Fail(401, "Token expired")
    ELSE [ok |-> TRUE, payload |-> token.payload]

\* the identity taken from the token alone, the user never looked up
Mutant_get_current_user(token, U, t) ==
    LET dec == decode_token(token, t)
    IN  IF ~dec.ok THEN dec
        ELSE IF dec.payload.id = << >> THEN Fail(401, "Invalid token payload")
        ELSE [ok |-> TRUE, user |-> dec.payload]

get_current_user(token, U, t) ==
    LET dec == decode_token(token, t)
    IN  IF ~dec.ok THEN dec
        ELSE LET user_id == dec.payload.id
             IN  IF user_id = << >> THEN Fail(401, "Invalid token payload")
                 ELSE LET user == find_one(U, [id |-> ObjectId(user_id)])
                      IN  IF ~user.found THEN Fail(401, "User not found")
                          ELSE [ok |-> TRUE, user |-> serialize_doc(user.doc)]

\* ------------------------------------------------------------ request inputs
Tokens == {x.token : x \in issued}
\* a token re-signed under another key
Forged(token) == [token EXCEPT !.sig = Sign(token.payload, "otherkey")]
\* a well-signed token that carries no id
NoIdToken ==
    create_token([id |-> << >>, email |-> "a@b.com", is_admin |-> FALSE],
                 TokenLifetime + MaxSkew + TicksPerSecond)
TokenInputs == Tokens \cup {Forged(t) : t \in Tokens} \cup {NoIdToken}

\* a request addresses the oldest stored product, or an id no product has
ProductIdInputs ==
    {str(products[i].id) : i \in (1 .. Len(products)) \cap {1}}
      \cup { << nextId.product >> }

UserIdInputs == {str(users[i].id) : i \in 1 .. Len(users)} \cup { << nextId.user >> }

\* a client keeps the token it was handed, with the claims it was issued
\* for and the instant of issue
Remember(token, claims, by) ==
    IF Cardinality(issued) < MaxTokens
    THEN issued \cup {[token |-> token, claims |-> claims, at |-> now, by |-> by]}
    ELSE issued

Reply(op, status, detail, out) ==
    [op |-> op, status |-> status, detail |-> detail, out |-> out]
Nothing == [none |-> TRUE]
\* no request is being answered
Idle == Reply("idle", 200, "", Nothing)

\* the two requests handled at the same time
Workers == {"w1", "w2"}
NoRequest == [op |-> "none", pc |-> "idle"]

Init ==
    /\ users = << >>
    /\ products = << >>
    /\ orders = << >>
    /\ nextId = [user |-> 1, product |-> 1, order |-> 1]
    /\ now = 0
    /\ issued = {}
    /\ placedBy = << >>
    /\ signedUp = {}
    /\ resp = Idle
    /\ procs = [p \in Workers |-> NoRequest]

\* ------------------------------------------------------------ time
Tick ==
    /\ resp = Idle
    /\ \E t \in Instants : t > now /\ now' = t
    /\ UNCHANGED <<users, products, orders, nextId, issued, placedBy, signedUp, resp, procs>>

\* the clock observed only now and then
Advance ==
    /\ resp = Idle
    /\ \E t \in {TokenLifetime + MaxSkew + TicksPerSecond} : t > now /\ now' = t
    /\ UNCHANGED <<users, products, orders, nextId, issued, placedBy, signedUp, resp, procs>>

\* ------------------------------------------------------------ auth
NewUser(body) ==
    [ name |-> body.name, email |-> body.email,
      password_hash |-> hash_password(body.password), is_admin |-> FALSE ]

SignupClaims(user_id, body) ==
    [id |-> user_id, email |-> body.email, is_admin |-> FALSE]

EmailTaken(U, email) == find_one(U, [email |-> email]).found

\* the tail of signup once the email was found free: insert, issue, answer
signup_insert(U, n, body, t) ==
    LET user_id == << n >>
    IN  [ users |-> insert_one(U, NewUser(body), n),
          resp |-> Reply("signup", 200, "",
                         [ token |-> create_token(SignupClaims(user_id, body), t),
                           user |-> [ id |-> user_id, name |-> body.name,
                                      email |-> body.email, is_admin |-> FALSE ] ]) ]

signup_reject(U) ==
    [users |-> U, resp |-> Reply("signup", 400, "Email already registered", Nothing)]

\* signup handled in one piece on the user collection U with next ObjectId n
signup_result(U, n, body, t) ==
    IF EmailTaken(U, body.email) THEN signup_reject(U)
    ELSE signup_insert(U, n, body, t)

signup(body) ==
    LET r == signup_result(users, nextId.user, body, now)
    IN  IF r.resp.status # 200
        THEN /\ resp' = r.resp
             /\ UNCHANGED <<users, products, orders, nextId, now, issued, placedBy, signedUp, procs>>
        ELSE /\ nextId.user <= MaxUsers
             /\ users' = r.users
             /\ nextId' = [nextId EXCEPT !.user = @ + 1]
             /\ issued' = Remember(r.resp.out.token,
                                   SignupClaims(<< nextId.user >>, body), "signup")
             /\ signedUp' = signedUp \cup {<<body.email, body.password>>}
             /\ resp' = r.resp
             /\ UNCHANGED <<products, orders, now, placedBy, procs>>

\* the password never compared
Mutant_CredentialsOk(user, password) == user.found

CredentialsOk(user, password) ==
    user.found /\ user.doc.password_hash = hash_password(password)

login(body) ==
    LET user == find_one(users, [email |-> body.email])
    IN  IF ~CredentialsOk(user, body.password)
        THEN /\ resp' = Reply("login", 401, "Invalid credentials", Nothing)
             /\ UNCHANGED <<users, products, orders, nextId, now, issued, placedBy, signedUp, procs>>
        ELSE LET suser == serialize_doc(user.doc)
                 claims == [ id |-> suser.id, email |-> suser.email,
                             is_admin |-> suser.is_admin ]
                 token == create_token(claims, now)
             IN  /\ issued' = Remember(token, claims, "login")
                 /\ resp' = Reply("login", 200, "",
                                  [ token |-> token,
                                    user |-> [ id |-> suser.id, name |-> suser.name,
                                               email |-> suser.email,
                                               is_admin |-> suser.is_admin ] ])
                 /\ UNCHANGED <<users, products, orders, nextId, now, placedBy, signedUp, procs>>

\* ------------------------------------------------------------ guards
\* "if not user.get('is_admin')" of the admin-only routes
Mutant_AdminOnly(user) == TRUE
AdminOnly(user) == user.is_admin = TRUE
\* "user['id'] != body.user_id and not user.get('is_admin')" of create_order
Mutant_SelfOrAdmin(user, user_id) == TRUE
SelfOrAdmin(user, user_id) == user.id = user_id \/ user.is_admin = TRUE

Rejected(op, auth) ==
    /\ resp' = Reply(op, auth.status, auth.detail, Nothing)
    /\ UNCHANGED <<users, products, orders, nextId, now, issued, placedBy, signedUp, procs>>

Forbidden(op, detail) ==
    /\ resp' = Reply(op, 403, detail, Nothing)
    /\ UNCHANGED <<users, products, orders, nextId, now, issued, placedBy, signedUp, procs>>

\* ------------------------------------------------------------ products
\* product ObjectIds handed out in all: two seedings and the extra products
MaxProductIds == 2 * Len(DEMO_PRODUCTS) + MaxExtraProducts

create_product(token, body) ==
    LET auth == get_current_user(token, users, now)
    IN  IF ~auth.ok THEN Rejected("create_product", auth)
        ELSE IF ~AdminOnly(auth.user) THEN Forbidden("create_product", "Admin only")
        ELSE /\ Len(products) < Len(DEMO_PRODUCTS) + MaxExtraProducts
             /\ nextId.product <= MaxProductIds
             /\ products' = insert_one(products, body, nextId.product)
             /\ nextId' = [nextId EXCEPT !.product = @ + 1]
             /\ resp' = Reply("create_product", 200, "", [id |-> << nextId.product >>])
             /\ UNCHANGED <<users, orders, now, issued, placedBy, signedUp, procs>>

\* updated_at left out of the $set
Mutant_SparseUpdate(body, t) ==
    [k \in {f \in DOMAIN body : body[f] # None} |-> body[k][1]]

\* body.model_dump(exclude_none=True) with updated_at added
SparseUpdate(body, t) ==
    [k \in {f \in DOMAIN body : body[f] # None} |-> body[k][1]]
      @@ [updated_at |-> t]

\* update_one: the first document with the id gets the $set
update_one(coll, oid, update) ==
    LET hits == {i \in 1 .. Len(coll) : Matches(coll[i], [id |-> oid])}
    IN  IF hits = {} THEN coll
        ELSE [coll EXCEPT ![Min(hits)] = SetFields(@, update)]

matched_count(coll, oid) ==
    IF find_one(coll, [id |-> oid]).found THEN 1 ELSE 0

\* delete_one: the first document with the id is removed
delete_one(coll, oid) ==
    LET hits == {i \in 1 .. Len(coll) : Matches(coll[i], [id |-> oid])}
    IN  IF hits = {} THEN coll
        ELSE [i \in 1 .. (Len(coll) - 1) |->
                 IF i < Min(hits) THEN coll[i] ELSE coll[i + 1]]

update_product(token, product_id, body) ==
    LET auth == get_current_user(token, users, now)
    IN  IF ~auth.ok THEN Rejected("update_product", auth)
        ELSE IF ~AdminOnly(auth.user) THEN Forbidden("update_product", "Admin only")
        ELSE /\ products' = update_one(products, ObjectId(product_id), SparseUpdate(body, now))
             /\ resp' = IF matched_count(products, ObjectId(product_id)) = 0
                        THEN Reply("update_product", 404, "Product not found", Nothing)
                        ELSE Reply("update_product", 200, "", [ok |-> TRUE])
             /\ UNCHANGED <<users, orders, nextId, now, issued, placedBy, signedUp, procs>>

delete_product(token, product_id) ==
    LET auth == get_current_user(token, users, now)
    IN  IF ~auth.ok THEN Rejected("delete_product", auth)
        ELSE IF ~AdminOnly(auth.user) THEN Forbidden("delete_product", "Admin only")
        ELSE /\ products' = delete_one(products, ObjectId(product_id))
             /\ resp' = IF matched_count(products, ObjectId(product_id)) = 0
                        THEN Reply("delete_product", 404, "Product not found", Nothing)
                        ELSE Reply("delete_product", 200, "", [ok |-> TRUE])
             /\ UNCHANGED <<users, orders, nextId, now, issued, placedBy, signedUp, procs>>

\* ------------------------------------------------------------ orders
\* OrderCreateBody: user_id varies; the other fields are fixed
OrderBody(user_id) ==
    [ user_id |-> user_id, items |-> << >>, total |-> 0, name |-> "Ann",
      address |-> "1 Main St", phone |-> "555", payment_method |-> "COD",
      status |-> "placed" ]

create_order(token, body) ==
    LET auth == get_current_user(token, users, now)
    IN  IF ~auth.ok THEN Rejected("create_order", auth)
        ELSE IF ~SelfOrAdmin(auth.user, body.user_id)
        THEN Forbidden("create_order", "Not allowed")
        ELSE /\ nextId.order <= MaxOrders
             /\ orders' = insert_one(orders, body, nextId.order)
             /\ nextId' = [nextId EXCEPT !.order = @ + 1]
             /\ placedBy' = Append(placedBy, [ id |-> auth.user.id,
                                               is_admin |-> auth.user.is_admin ])
             /\ resp' = Reply("create_order", 200, "", [id |-> << nextId.order >>])
             /\ UNCHANGED <<users, products, now, issued, signedUp, procs>>

\* ------------------------------------------------------------ admin
admin_stats(token) ==
    LET auth == get_current_user(token, users, now)
    IN  IF ~auth.ok THEN Rejected("admin_stats", auth)
        ELSE IF ~AdminOnly(auth.user) THEN Forbidden("admin_stats", "Admin only")
        ELSE /\ resp' = Reply("admin_stats", 200, "",
                              [ users |-> count_documents(users, All),
                                products |-> count_documents(products, All),
                                orders |-> count_documents(orders, All) ])
             /\ UNCHANGED <<users, products, orders, nextId, now, issued, placedBy, signedUp, procs>>

\* ------------------------------------------------------------ seed
AdminUser ==
    [ name |-> "Admin", email |-> ADMIN_EMAIL,
      password_hash |-> hash_password(ADMIN_PASSWORD), is_admin |-> TRUE ]

\* the loop "for p in DEMO_PRODUCTS: create_document('product', ...)"
RECURSIVE InsertAll(_, _, _)
InsertAll(coll, docs, n) ==
    IF docs = << >> THEN coll
    ELSE InsertAll(insert_one(coll, Head(docs), n), Tail(docs), n + 1)

\* the admin user inserted on every seeding
Mutant_NeedsAdmin(U) == TRUE
NeedsAdmin(U) == count_documents(U, [is_admin |-> TRUE]) = 0

\* seed handled in one piece on the collections P and U
seed_result(P, U, np, nu) ==
    IF count_documents(P, All) > 0
    THEN [ products |-> P, users |-> U,
           resp |-> Reply("seed", 200, "Products already exist", [seeded |-> FALSE]) ]
    ELSE LET P2 == InsertAll(P, DEMO_PRODUCTS, np)
         IN  [ products |-> P2,
               users |-> IF NeedsAdmin(U) THEN insert_one(U, AdminUser, nu) ELSE U,
               resp |-> Reply("seed", 200, "",
                              [seeded |-> TRUE, products |-> count_documents(P2, All)]) ]

seed ==
    LET r == seed_result(products, users, nextId.product, nextId.user)
    IN  /\ r.resp.out.seeded => nextId.product + Len(DEMO_PRODUCTS) - 1 <= MaxProductIds
        /\ products' = r.products
        /\ users' = r.users
        /\ nextId' = [nextId EXCEPT
                         !.product = @ + (Len(r.products) - Len(products)),
                         !.user = @ + (Len(r.users) - Len(users))]
        /\ resp' = r.resp
        /\ UNCHANGED <<orders, now, issued, placedBy, signedUp, procs>>

\* ------------------------------------------------------------ storage
\* a user document removed from db["user"] by an administrator of the store
DeleteUser ==
    /\ resp = Idle
    /\ \E user_id \in {str(users[i].id) : i \in 1 .. Len(users)} :
           users' = delete_one(users, ObjectId(user_id))
    /\ UNCHANGED <<products, orders, nextId, now, issued, placedBy, signedUp, resp, procs>>

\* ------------------------------------------------------------ concurrent handling
\* signup and seed as the worker threads run them: every find_one,
\* count_documents and insert is one step on the shared collections
ConcRequests ==
    {[op |-> "signup", body |-> b] : b \in SignupBodies}
      \cup {[op |-> "seed", body |-> Nothing]}

Goto(p, pc) == procs' = [procs EXCEPT ![p].pc = pc]
Done(p, r) == procs' = [procs EXCEPT ![p].pc = "done", ![p].resp = r]

Accept(p) ==
    /\ procs[p].pc = "idle"
    /\ \E request \in ConcRequests :
           procs' = [procs EXCEPT ![p] =
                        [ op |-> request.op, body |-> request.body,
                          pc |-> IF request.op = "signup" THEN "find" ELSE "count",
                          i |-> 1, resp |-> Idle ]]
    /\ UNCHANGED <<users, products, orders, nextId, now, issued, placedBy, signedUp, resp>>

\* existing = db["user"].find_one({"email": body.email})
signup_find(p) ==
    /\ procs[p].pc = "find"
    /\ IF EmailTaken(users, procs[p].body.email)
       THEN Done(p, signup_reject(users).resp)
       ELSE Goto(p, "insert")
    /\ UNCHANGED <<users, products, orders, nextId, now, issued, placedBy, signedUp, resp>>

\* user_id = create_document("user", user), then the token and the answer
signup_create(p) ==
    /\ procs[p].pc = "insert"
    /\ LET r == signup_insert(users, nextId.user, procs[p].body, now)
       IN  /\ users' = r.users
           /\ Done(p, r.resp)
    /\ nextId' = [nextId EXCEPT !.user = @ + 1]
    /\ UNCHANGED <<products, orders, now, issued, placedBy, signedUp, resp>>

\* if db["product"].count_documents({}) > 0: return
seed_count(p) ==
    /\ procs[p].pc = "count"
    /\ IF count_documents(products, All) > 0
       THEN Done(p, Reply("seed", 200, "Products already exist", [seeded |-> FALSE]))
       ELSE Goto(p, "loop")
    /\ UNCHANGED <<users, products, orders, nextId, now, issued, placedBy, signedUp, resp>>

\* one turn of "for p in DEMO_PRODUCTS: create_document('product', prod)"
seed_insert(p) ==
    /\ procs[p].pc = "loop"
    /\ products' = insert_one(products, DEMO_PRODUCTS[procs[p].i], nextId.product)
    /\ nextId' = [nextId EXCEPT !.product = @ + 1]
    /\ procs' = [procs EXCEPT
                    ![p].i = @ + 1,
                    ![p].pc = IF procs[p].i = Len(DEMO_PRODUCTS)
                              THEN "count_admin" ELSE "loop"]
    /\ UNCHANGED <<users, orders, now, issued, placedBy, signedUp, resp>>

\* if db["user"].count_documents({"is_admin": True}) == 0
seed_count_admin(p) ==
    /\ procs[p].pc = "count_admin"
    /\ Goto(p, IF NeedsAdmin(users) THEN "insert_admin" ELSE "count_final")
    /\ UNCHANGED <<users, products, orders, nextId, now, issued, placedBy, signedUp, resp>>

\* create_document("user", admin)
seed_insert_admin(p) ==
    /\ procs[p].pc = "insert_admin"
    /\ users' = insert_one(users, AdminUser, nextId.user)
    /\ nextId' = [nextId EXCEPT !.user = @ + 1]
    /\ Goto(p, "count_final")
    /\ UNCHANGED <<products, orders, now, issued, placedBy, signedUp, resp>>

\* return {"seeded": True, "products": db["product"].count_documents({})}
seed_final(p) ==
    /\ procs[p].pc = "count_final"
    /\ Done(p, Reply("seed", 200, "",
                     [seeded |-> TRUE, products |-> count_documents(products, All)]))
    /\ UNCHANGED <<users, products, orders, nextId, now, issued, placedBy, signedUp, resp>>

\* ------------------------------------------------------------ specification
\* a request is taken up once the previous response has left
Signup == resp = Idle /\ \E body \in SignupBodies : signup(body)
Login == resp = Idle /\ \E body \in LoginBodies : login(body)
CreateProduct ==
    /\ resp = Idle
    /\ \E token \in TokenInputs, body \in CreateBodies : create_product(token, body)
UpdateProduct ==
    /\ resp = Idle
    /\ \E token \in TokenInputs, product_id \in ProductIdInputs, body \in UpdateBodies :
           update_product(token, product_id, body)
DeleteProduct ==
    /\ resp = Idle
    /\ \E token \in TokenInputs, product_id \in ProductIdInputs :
           delete_product(token, product_id)
CreateOrder ==
    /\ resp = Idle
    /\ \E token \in TokenInputs, user_id \in UserIdInputs :
           create_order(token, OrderBody(user_id))
AdminStats == resp = Idle /\ \E token \in TokenInputs : admin_stats(token)
Seed == resp = Idle /\ seed
\* the response leaves for the client
Return ==
    /\ resp # Idle
    /\ resp' = Idle
    /\ UNCHANGED <<users, products, orders, nextId, now, issued, placedBy, signedUp, procs>>

Next ==
    \/ Advance
    \/ Signup
    \/ Login
    \/ CreateProduct
    \/ UpdateProduct
    \/ DeleteProduct
    \/ CreateOrder
    \/ AdminStats
    \/ Seed
    \/ Return

Spec == Init /\ [][Next]_vars

\* the catalogue routes with the account routes they depend on
NextCatalog ==
    \/ Advance
    \/ Signup
    \/ Login
    \/ CreateProduct
    \/ UpdateProduct
    \/ DeleteProduct
    \/ AdminStats
    \/ Seed
    \/ Return
SpecCatalog == Init /\ [][NextCatalog]_vars

\* order placement with the account routes it depends on
NextOrders ==
    \/ Advance
    \/ Signup
    \/ Login
    \/ CreateOrder
    \/ Seed
    \/ Return
SpecOrders == Init /\ [][NextOrders]_vars

\* every route, over a store whose operator also removes users
NextStorage == Next \/ DeleteUser
SpecStorage == Init /\ [][NextStorage]_vars

\* the account routes and one protected route under the fine-grained clock
NextAccounts ==
    \/ Tick
    \/ Signup
    \/ Login
    \/ AdminStats
    \/ Seed
    \/ Return
SpecAccounts == Init /\ [][NextAccounts]_vars

\* two requests handled at the same time, step by step
NextConc ==
    \E p \in Workers :
        \/ Accept(p)
        \/ signup_find(p)
        \/ signup_create(p)
        \/ seed_count(p)
        \/ seed_insert(p)
        \/ seed_count_admin(p)
        \/ seed_insert_admin(p)
        \/ seed_final(p)
SpecConc == Init /\ [][NextConc]_vars

\* ------------------------------------------------------------ properties
Auth(token) == get_current_user(token, users, now)
AdminCount(U) == Cardinality({i \in 1 .. Len(U) : U[i].is_admin = TRUE})
UniqueEmails(U) == \A i, j \in 1 .. Len(U) : U[i].email = U[j].email => i = j
HasUser(user_id) ==
    /\ user_id # << >>
    /\ \E i \in 1 .. Len(users) : users[i].id = [oid |-> user_id[1]]
Expired(token) == token.payload.exp * TicksPerSecond <= now

AdminGatedOps == {"create_product", "update_product", "delete_product", "admin_stats"}
ProtectedOps == AdminGatedOps \cup {"create_order"}

\* this step is the protected request its response names, carrying the token
ProtectedStep(token) ==
    CASE resp'.op = "create_product" ->
           \E body \in CreateBodies : create_product(token, body)
      [] resp'.op = "update_product" ->
           \E product_id \in ProductIdInputs, body \in UpdateBodies :
               update_product(token, product_id, body)
      [] resp'.op = "delete_product" ->
           \E product_id \in ProductIdInputs : delete_product(token, product_id)
      [] resp'.op = "admin_stats" -> admin_stats(token)
      [] resp'.op = "create_order" ->
           \E user_id \in UserIdInputs : create_order(token, OrderBody(user_id))
      [] OTHER -> FALSE

\* C1: no two user records share an email, and a signup with a stored email
\* is answered 'Email already registered' and leaves the user collection as it was
C1_EmailUniqueness ==
    [][ /\ UniqueEmails(users')
        /\ resp'.op = "signup" =>
             \A body \in SignupBodies :
                 (signup(body) /\ \E i \in 1 .. Len(users) : users[i].email = body.email)
                   => /\ resp'.status = 400
                      /\ resp'.detail = "Email already registered"
                      /\ users' = users ]_vars

\* C2: an admin-gated request of an authenticated non-admin is answered 403
\* with the user, product and order collections untouched; the request of an
\* authenticated admin is let through the guard
C2_AdminGuard ==
    [][ resp'.op \in AdminGatedOps =>
          \A token \in TokenInputs :
              (ProtectedStep(token) /\ Auth(token).ok)
                => IF Auth(token).user.is_admin
                   THEN resp'.status \notin {401, 403}
                   ELSE /\ resp'.status = 403
                        /\ UNCHANGED <<users, products, orders>> ]_vars

C2_Witness ==
    /\ resp.op = "update_product"
    /\ resp.status = 403
    /\ Len(products) > 0

\* C3: create order by an identity that is neither the order's user nor an
\* admin is answered 403 and stores nothing; every stored order placed for
\* someone else was placed by an admin
OrdersByOwnerOrAdmin ==
    \A i \in 1 .. Len(orders) :
        orders[i].user_id # placedBy[i].id => placedBy[i].is_admin

C3_OrderGuard ==
    [][ /\ resp'.op = "create_order" =>
             \A token \in TokenInputs, user_id \in UserIdInputs :
                 ( /\ create_order(token, OrderBody(user_id))
                   /\ Auth(token).ok
                   /\ Auth(token).user.id # user_id
                   /\ ~Auth(token).user.is_admin )
                   => resp'.status = 403 /\ orders' = orders
        /\ OrdersByOwnerOrAdmin' ]_vars

C3_Witness ==
    /\ resp.op = "create_order"
    /\ resp.status = 403
    /\ \E x \in issued : ~x.claims.is_admin /\ HasUser(x.claims.id)

\* C4: a protected request gets past authentication only if the user
\* collection holds the record the token's id names; an issued, unexpired
\* token whose user has been removed is answered 401 'User not found'
C4_IdentityExists ==
    [][ resp'.op \in ProtectedOps =>
          \A token \in TokenInputs :
              ProtectedStep(token)
                => /\ resp'.status # 401 => HasUser(token.payload.id)
                   /\ ( /\ token \in Tokens
                        /\ ~Expired(token)
                        /\ ~HasUser(token.payload.id) )
                        => resp'.status = 401 /\ resp'.detail = "User not found" ]_vars

C4_Witness ==
    /\ resp.status = 401
    /\ resp.detail = "User not found"
    /\ \E x \in issued : ~Expired(x.token) /\ ~HasUser(x.claims.id)

\* C5 as claimed: a token issued at T verifies with its claims at any time
\* before T + 7 days and is answered 'Token expired' at any time after
C5_ExpiryAtSevenDays ==
    \A x \in issued :
        LET d == decode_token(x.token, now)
        IN  /\ now < x.at + TokenLifetime =>
                /\ d.ok
                /\ d.payload.id = x.claims.id
                /\ d.payload.email = x.claims.email
                /\ d.payload.is_admin = x.claims.is_admin
            /\ now > x.at + TokenLifetime => d = Fail(401, "Token expired")

\* the instant T + 7 days cut down to a whole second, in ticks
ExpiryOf(t) == ((t + TokenLifetime) \div TicksPerSecond) * TicksPerSecond

\* C5 amended: the token carries T + 7 days cut down to a whole second; it
\* verifies with its claims at any time before that instant and is answered
\* 'Token expired' at any time after T + 7 days
C5_ExpiryAtWholeSecond ==
    \A x \in issued :
        LET d == decode_token(x.token, now)
        IN  /\ x.token.payload.exp * TicksPerSecond = ExpiryOf(x.at)
            /\ now < ExpiryOf(x.at) =>
                /\ d.ok
                /\ d.payload.id = x.claims.id
                /\ d.payload.email = x.claims.email
                /\ d.payload.is_admin = x.claims.is_admin
            /\ now > x.at + TokenLifetime => d = Fail(401, "Token expired")

C5_Witness ==
    /\ resp.op = "admin_stats"
    /\ resp.detail = "Token expired"
    /\ \E x \in issued : x.at % TicksPerSecond # 0 /\ now > x.at + TokenLifetime

\* C6: an admin's update of an existing product sets the supplied fields,
\* keeps the omitted ones, stamps updated_at with the current time, also
\* when nothing is supplied, and touches no other product
C6_SparseUpdate ==
    [][ resp'.op = "update_product" =>
          \A token \in TokenInputs, product_id \in ProductIdInputs, body \in UpdateBodies :
              ( /\ update_product(token, product_id, body)
                /\ Auth(token).ok
                /\ Auth(token).user.is_admin
                /\ \E i \in 1 .. Len(products) : str(products[i].id) = product_id )
                => LET i == Min({n \in 1 .. Len(products) :
                                    str(products[n].id) = product_id})
                       old == products[i]
                       new == products'[i]
                   IN  /\ resp'.status = 200
                       /\ Len(products') = Len(products)
                       /\ \A k \in ProductFields :
                              body[k] # None => k \in DOMAIN new /\ new[k] = body[k][1]
                       /\ \A k \in DOMAIN old \ {"updated_at"} :
                              (k \notin ProductFields \/ body[k] = None)
                                => k \in DOMAIN new /\ new[k] = old[k]
                       /\ "updated_at" \in DOMAIN new /\ new["updated_at"] = now
                       /\ \A j \in (1 .. Len(products)) \ {i} :
                              products'[j] = products[j] ]_vars

\* an update with an empty body has been applied: the first demo product
\* is as seeded but for its timestamp
C6_Witness ==
    /\ resp.op = "update_product"
    /\ resp.status = 200
    /\ \E i \in 1 .. Len(products) :
           /\ "updated_at" \in DOMAIN products[i]
           /\ \A k \in ProductFields : products[i][k] = DEMO_PRODUCTS[1][k]

\* C7: login with the email and password of a successful signup returns a
\* token that authenticates as a non-admin with that email; login with
\* another password, or with an email nobody holds, is answered 401
\* 'Invalid credentials' and hands out no token; login never changes users
C7_LoginAfterSignup ==
    [][ resp'.op = "login" =>
          \A body \in LoginBodies :
              login(body)
                => /\ users' = users
                   /\ <<body.email, body.password>> \in signedUp =>
                        /\ resp'.status = 200
                        /\ LET who == get_current_user(resp'.out.token, users', now')
                           IN  /\ who.ok
                               /\ ~who.user.is_admin
                               /\ who.user.email = body.email
                   /\ ( \/ \A i \in 1 .. Len(users) : users[i].email # body.email
                        \/ \E p \in Passwords :
                               /\ <<body.email, p>> \in signedUp
                               /\ hash_password(p) # hash_password(body.password) )
                        => /\ resp'.status = 401
                           /\ resp'.detail = "Invalid credentials"
                           /\ resp'.out = Nothing
                           /\ issued' = issued ]_vars

C7_Witness ==
    /\ resp.op = "login"
    /\ resp.status = 200
    /\ \E p \in Passwords : <<resp.out.user.email, p>> \in signedUp

\* what authentication must turn away: a bad signature, an expired token,
\* no id claim, or an id naming no stored user
BadToken(token) ==
    \/ token.sig # Sign(token.payload, JWT_SECRET)
    \/ Expired(token)
    \/ ~HasUser(token.payload.id)

Handled(request, d) ==
    IF request.op = "signup"
    THEN LET r == signup_result(d.users, d.nu, request.body, now)
         IN  [ users |-> r.users, products |-> d.products,
               nu |-> d.nu + (Len(r.users) - Len(d.users)), np |-> d.np,
               resp |-> r.resp ]
    ELSE LET r == seed_result(d.products, d.users, d.np, d.nu)
         IN  [ users |-> r.users, products |-> r.products,
               nu |-> d.nu + (Len(r.users) - Len(d.users)),
               np |-> d.np + (Len(r.products) - Len(d.products)),
               resp |-> r.resp ]

EmptyStore == [users |-> << >>, products |-> << >>, nu |-> 1, np |-> 1]

\* C9: once both concurrent requests are answered, the collections and the
\* two responses are those of the requests handled one after the other
C9_Serializable ==
    (\A p \in Workers : procs[p].pc = "done") =>
        \E p, q \in Workers :
            /\ p # q
            /\ LET first == Handled(procs[p], EmptyStore)
                   second == Handled(procs[q], first)
               IN  /\ procs[p].resp = first.resp
                   /\ procs[q].resp = second.resp
                   /\ users = second.users
                   /\ products = second.products

\* C10: signup stores only non-admin users and hands out only non-admin
\* tokens; an admin record appears only through seed, and only when there
\* was none; there is never more than one admin record
C10_NoPrivilegeGain ==
    [][ /\ resp'.op = "signup" =>
             /\ AdminCount(users') = AdminCount(users)
             /\ resp'.status = 200 =>
                  /\ ~resp'.out.token.payload.is_admin
                  /\ ~resp'.out.user.is_admin
                  /\ Len(users') = Len(users) + 1
                  /\ ~users'[Len(users')].is_admin
        /\ AdminCount(users') > AdminCount(users) =>
             resp'.op = "seed" /\ AdminCount(users) = 0
        /\ AdminCount(users') <= 1 ]_vars

\* the store was seeded again while an admin record was there
C10_Witness ==
    /\ resp.op = "seed"
    /\ resp.out.seeded
    /\ nextId.product > 2 * Len(DEMO_PRODUCTS)
    /\ AdminCount(users) = 1
    /\ Len(users) > 1
====
